---- MODULE Spec2Model ----
(***************************************************************************)
(* Published-collab duplicator (src/src/biz/workspace/publish_dup.rs).     *)
(*                                                                         *)
(* One run of PublishCollabDuplicator::deep_copy is modelled as a          *)
(* sequential state machine: the recursion of deep_copy_txn through page   *)
(* mentions is an explicit call stack, every await point that can return   *)
(* an error is a step that may fail, and the SQL transaction is a log of   *)
(* inserts that reaches the destination workspace only on commit.          *)
(*                                                                         *)
(* Ids are integers.  Old (published) ids are small numbers, the ids that  *)
(* uuid::Uuid::new_v4 produces are drawn from a counter starting at        *)
(* NewIdBase, so every generated id is fresh.                              *)
(***************************************************************************)
EXTENDS Integers, Sequences, FiniteSets, TLC

\* ------------------------------------------------------------------ bounds
\* size of the published set one run may read.  A page mention, a text_map
\* mention, a database block and a database view count 2 each, a row and a
\* row order 1 each.
MaxWorld == 7
\* malformed items in the published set: page_id values that are no uuid
\* string, database blocks without view_id or parent_id
MaxMalformed == 1
\* longest row_orders list of one database view
MaxRowOrders == 2

\* ------------------------------------------------------------- id universe
\* page ids that occur in mentions; each is a published document or unpublished
PageIds == {1, 2, 3}
\* view ids of published databases
DbViewIds == {11, 12}
\* row ids of published databases
RowIds == {21, 22}

DestViewId == 50
WorkspaceId == 60
WsDbOid == 61
NewIdBase == 100

\* Option::None of duplicated_refs, and the empty parent_view_id "" of a new View
NoneRef == 0
EmptyId == 0
\* JSON values that are not uuid strings
JsonNull == -1
JsonNotString == -2
BadUuidString == -3
MissingKey == -4

\* ------------------------------------------------------------------ helpers
Range(s) == {s[k] : k \in 1..Len(s)}

SeqsUpTo(S, n) == UNION {[1..k -> S] : k \in 0..n}

Put(f, k, v) == [x \in DOMAIN f \cup {k} |-> IF x = k THEN v ELSE f[x]]

\* serde_json::json!(Option<String>): None serialises to null
JsonOfOption(o) == IF o = NoneRef THEN JsonNull ELSE o

VARIABLES
  publish_view_id,      \* argument of deep_copy
  collab_type,          \* argument of deep_copy
  published,            \* the publish store, as far as the run has read it
  pc,                   \* position of the run in deep_copy
  stack,                \* frames of deep_copy_doc_txn, innermost last
  db,                   \* the frame of deep_copy_database_txn, when one is running
  duplicated_refs,
  views_to_add,
  workspace_databases,
  root_view,
  ws_db_collab,         \* the workspace-database collab deep_copy works on
  folder,               \* the Folder deep_copy works on
  next_id,              \* source of uuid::Uuid::new_v4
  txn,                  \* collabs inserted in the SQL transaction, in order
  txn_state,            \* "none" | "open" | "committed" | "rolled_back"
  stored,               \* collabs persisted in the destination workspace
  broadcasts,           \* update frames sent to editing groups, in order
  result,               \* "running" | "Ok" | an error kind
  other                 \* a concurrent run into the same workspace, see OtherRun

vars == <<publish_view_id, collab_type, published, pc, stack, db, duplicated_refs,
          views_to_add, workspace_databases, root_view, ws_db_collab, folder,
          next_id, txn, txn_state, stored, broadcasts, result, other>>

\* ------------------------------------------------------------- data shapes
\* collab_folder::View, the fields the duplicator sets
NewFolderView(new_view_id, layout) ==
  [id |-> new_view_id, parent_view_id |-> EmptyId, children |-> <<>>, layout |-> layout]

NoView == NewFolderView(EmptyId, "None")

\* a collab as handed to insert_new_collab_with_transaction
CollabParams(oid, ty) ==
  [object_id |-> oid, collab_type |-> ty,
   deltas |-> <<>>, text_map |-> <<>>, blocks |-> <<>>,
   database_id |-> EmptyId, db_views |-> <<>>,
   folder_views |-> <<>>, ws_databases |-> <<>>]

\* a grid/board/calendar block: data.view_id and data.parent_id
DbBlocks == [view_id : DbViewIds \cup {MissingKey}, parent_id : {DestViewId, MissingKey}]

\* what the publish store holds for one view id: nothing, a Document with its
\* metadata, or a PublishDatabaseData with its metadata
PublishedData(kind, d, t, b, sl, cv, dv, rows, vis) ==
  [kind |-> kind, deltas |-> d, text_map |-> t, blocks |-> b,
   second_last |-> sl, child_views |-> cv, db_views |-> dv, rows |-> rows,
   visible |-> vis]

Unpublished == PublishedData("none", <<>>, <<>>, <<>>, MissingKey, {}, <<>>, {}, {})

PublishedDoc(d, t, b) == PublishedData("doc", d, t, b, MissingKey, {}, <<>>, {}, {})

PageIdValues == PageIds \cup {JsonNotString, BadUuidString}

Sum3 == {t \in (0..MaxWorld) \X (0..MaxWorld) \X (0..MaxWorld) :
           2 * (t[1] + t[2] + t[3]) <= MaxWorld}

Malformed(c) ==
  Cardinality({k \in DOMAIN c.deltas : c.deltas[k] \notin PageIds})
  + Cardinality({k \in DOMAIN c.blocks : c.blocks[k].view_id = MissingKey})
  + Cardinality({k \in DOMAIN c.blocks : c.blocks[k].parent_id = MissingKey})

\* the documents the publish store may hold for a page id
PublishedDocs ==
  {c \in UNION {{PublishedDoc(d, t, b) : d \in [1..n[1] -> PageIdValues],
                                         t \in [1..n[2] -> PageIds],
                                         b \in [1..n[3] -> DbBlocks]} : n \in Sum3} :
     Malformed(c) <= MaxMalformed}

RECURSIVE SumLen(_)
SumLen(ss) == IF ss = <<>> THEN 0 ELSE Len(Head(ss).row_orders) + SumLen(Tail(ss))

\* the views of a published database, in the order get_all_views_with_txn yields
\* them, each with its row_orders
DbViewLists ==
  UNION {{dv \in {[k \in 1..Len(ids) |-> [id |-> ids[k], row_orders |-> ro[k]]] :
                    ro \in [1..Len(ids) -> SeqsUpTo(RowIds, MaxRowOrders)]} :
            2 * Len(dv) + SumLen(dv) <= MaxWorld} :
         ids \in {q \in SeqsUpTo(DbViewIds, Cardinality(DbViewIds)) :
                    2 * Len(q) <= MaxWorld /\ \A x, y \in DOMAIN q : x # y => q[x] # q[y]}}

\* the databases the publish store may hold for a database view id; child_views
\* names all views of the database or none
PublishedDbs ==
  UNION {{PublishedData("db", <<>>, <<>>, <<>>, sl, cv, dv, rows, vis) :
            sl \in DbViewIds \cup {MissingKey},
            cv \in {{}, {v.id : v \in Range(dv)}},
            rows \in {r \in SUBSET RowIds :
                        2 * Len(dv) + SumLen(dv) + Cardinality(r) <= MaxWorld},
            vis \in SUBSET {v.id : v \in Range(dv)}} :
         dv \in DbViewLists}

Size(c) == 2 * (Len(c.deltas) + Len(c.text_map) + Len(c.blocks) + Len(c.db_views))
           + SumLen(c.db_views) + Cardinality(c.rows)

RECURSIVE SizeOf(_)
SizeOf(ids) ==
  IF ids = {} THEN 0
  ELSE LET x == CHOOSE y \in ids : TRUE IN Size(published[x]) + SizeOf(ids \ {x})

RECURSIVE MalformedOf(_)
MalformedOf(ids) ==
  IF ids = {} THEN 0
  ELSE LET x == CHOOSE y \in ids : TRUE
       IN Malformed(published[x]) + MalformedOf(ids \ {x})

\* what is left of the bounds on the published set
Budget == MaxWorld - SizeOf(DOMAIN published)
MalformedBudget == MaxMalformed - MalformedOf(DOMAIN published)

\* the published data of at most a given size
DocsUpTo ==
  [n \in 0..MaxWorld |-> [m \in 0..MaxMalformed |->
     {c \in PublishedDocs : Size(c) <= n /\ Malformed(c) <= m}]]
DbsUpTo == [n \in 0..MaxWorld |-> {c \in PublishedDbs : Size(c) <= n}]

\* select_published_data_for_view_id: the store answers the same on every read
Fetch(id) ==
  IF id \in DOMAIN published THEN {published[id]}
  ELSE {Unpublished} \cup (IF id \in PageIds THEN DocsUpTo[Budget][MalformedBudget]
                                             ELSE DbsUpTo[Budget])

Remember(id, c) == Put(published, id, c)

\* the published data of the root: what deep_copy_txn does not read of it (the
\* ancestor_views of a root database, the content of a blob it cannot decode or
\* does not decode) is left out of the choice
RootFetch ==
  {c \in Fetch(publish_view_id) :
     \/ c.kind = "doc" /\ collab_type = "Document"
     \/ c.kind = "db" /\ collab_type = "Database" /\ c.second_last = MissingKey
     \/ Size(c) = 0 /\ c.second_last = MissingKey}

\* ------------------------------------------------------------------- Init
DbFrameIdFromView(old_view_id, new_view_id, new_db_id, new_block_view_id, fetched_id, c) ==
  [active |-> TRUE, old_view_id |-> old_view_id, new_view_id |-> new_view_id,
   new_db_id |-> 10 * NewIdBase + fetched_id, new_block_view_id |-> new_block_view_id,
   meta_view_id |-> fetched_id, c |-> c,
   rows_left |-> c.rows, row_map |-> <<>>, phase |-> "rows",
   db_views |-> <<>>, ret_view |-> NoView]

\* the frame of deep_copy_database_txn
DbFrame(old_view_id, new_view_id, new_db_id, new_block_view_id, fetched_id, c) ==
  [active |-> TRUE, old_view_id |-> old_view_id, new_view_id |-> new_view_id,
   new_db_id |-> new_db_id, new_block_view_id |-> new_block_view_id,
   meta_view_id |-> fetched_id, c |-> c,
   rows_left |-> c.rows, row_map |-> <<>>, phase |-> "rows",
   db_views |-> <<>>, ret_view |-> NoView]

NoDb == [DbFrame(EmptyId, EmptyId, EmptyId, EmptyId, EmptyId, Unpublished)
           EXCEPT !.active = FALSE, !.phase = "idle"]

\* ids of a concurrent run of deep_copy into the same workspace and view
OtherViewId == 70
OtherDbId == 71

\* the concurrent run has copied a published database with one view and stands
\* before `// update database if any`
OtherRootView == [NewFolderView(OtherViewId, "Grid") EXCEPT !.parent_view_id = DestViewId]
OtherWorkspaceDatabases == (OtherDbId :> <<OtherViewId>>)
OtherRun == [pc |-> "ws_db_fetch", ws_db_collab |-> <<>>, folder |-> <<>>, txn |-> <<>>]

\* the destination workspace before the run: its folder holds dest_view_id
DestView == [NewFolderView(DestViewId, "Document") EXCEPT !.parent_view_id = WorkspaceId]

StoredBefore ==
  <<[CollabParams(WorkspaceId, "Folder") EXCEPT !.folder_views = <<DestView>>],
    CollabParams(WsDbOid, "WorkspaceDatabase")>>

\* page ids are interchangeable and so are database view ids: the run starts on
\* the least of either kind
RootIds == {CHOOSE p \in PageIds : \A q \in PageIds : p <= q,
            CHOOSE v \in DbViewIds : \A w \in DbViewIds : v <= w}

Init ==
  /\ publish_view_id \in RootIds
  /\ collab_type \in {"Document", "Database", "Folder"}
  /\ published = <<>>
  /\ pc = "start"
  /\ stack = <<>>
  /\ db = NoDb
  /\ duplicated_refs = <<>>
  /\ views_to_add = <<>>
  /\ workspace_databases = <<>>
  /\ root_view = NoView
  /\ ws_db_collab = <<>>
  /\ folder = <<>>
  /\ next_id = NewIdBase
  /\ txn = <<>>
  /\ txn_state = "none"
  /\ stored = StoredBefore
  /\ broadcasts = <<>>
  /\ result = [kind |-> "Running", msg |-> ""]
  /\ other = OtherRun

\* ------------------------------------------------------------ frames
DocFrameOwnId(old, new_view_id, c) ==
  [old |-> old, view |-> NewFolderView(new_view_id + 1, "Document"),
   deltas |-> c.deltas, i |-> 1, text_map |-> c.text_map,
   blocks |-> c.blocks, j |-> 1, phase |-> "pages"]

\* deep_copy_doc_txn at its entry: the view to return, the document data
DocFrame(old, new_view_id, c) ==
  [old |-> old, view |-> NewFolderView(new_view_id, "Document"),
   deltas |-> c.deltas, i |-> 1, text_map |-> c.text_map,
   blocks |-> c.blocks, j |-> 1, phase |-> "pages"]

Top == stack[Len(stack)]
SetTop(f) == [stack EXCEPT ![Len(stack)] = f]
Pop == SubSeq(stack, 1, Len(stack) - 1)

FlowAlwaysWsDb(p) ==
  CASE p = "copy" -> "ws_db_fetch"
    [] p = "ws_db_fetch" -> "ws_db_insert"
    [] p = "ws_db_insert" -> "folder_fetch"
    [] p = "folder_fetch" -> "folder_insert"
    [] p = "folder_insert" -> "folder_broadcast"
    [] p = "folder_broadcast" -> "commit"

FlowFolderFirst(p) ==
  CASE p = "copy" -> "folder_fetch"
    [] p = "folder_fetch" -> "folder_insert"
    [] p = "folder_insert" -> "folder_broadcast"
    [] p = "folder_broadcast" ->
         IF DOMAIN workspace_databases # {} THEN "ws_db_fetch" ELSE "commit"
    [] p = "ws_db_fetch" -> "ws_db_insert"
    [] p = "ws_db_insert" -> "commit"

\* the order of the steps of deep_copy once the root view is returned: the
\* workspace database if any was duplicated, then the folder, then the commit
Flow(p) ==
  CASE p = "copy" ->
         IF DOMAIN workspace_databases # {} THEN "ws_db_fetch" ELSE "folder_fetch"
    [] p = "ws_db_fetch" -> "ws_db_insert"
    [] p = "ws_db_insert" -> "folder_fetch"
    [] p = "folder_fetch" -> "folder_insert"
    [] p = "folder_insert" -> "folder_broadcast"
    [] p = "folder_broadcast" -> "commit"

FailCommitted(kind, msg) ==
  /\ pc' = "done"
  /\ result' = [kind |-> kind, msg |-> msg]
  /\ txn_state' = "committed"

\* an early return of deep_copy with Err: the transaction is dropped uncommitted
Fail(kind, msg) ==
  /\ pc' = "done"
  /\ result' = [kind |-> kind, msg |-> msg]
  /\ txn_state' = "rolled_back"

\* the storage serialises by object id: a collab a transaction has inserted is
\* locked until that transaction ends
HeldByOther(oid) ==
  /\ other.pc # "done"
  /\ \E k \in DOMAIN other.txn : other.txn[k].object_id = oid

HeldByRun(oid) ==
  /\ txn_state = "open"
  /\ \E k \in DOMAIN txn : txn[k].object_id = oid

\* insert_collab_for_duplicator
InsertCollab(params) ==
  /\ ~HeldByOther(params.object_id)
  /\ txn' = Append(txn, params)

\* ------------------------------------------------------------ deep_copy_txn
RootNotFoundAsOk ==
  /\ pc' = "done"
  /\ result' = [kind |-> "Ok", msg |-> ""]
  /\ txn_state' = "committed"

\* deep_copy_txn returned Ok(None) for the root: rollback and RecordNotFound
RootNotFound == Fail("RecordNotFound", "view not found, it might be unpublished")

UnsupportedTypeNoOp ==
  /\ pc' = "done"
  /\ result' = [kind |-> "Ok", msg |-> ""]
  /\ txn_state' = "rolled_back"

\* `collab type not supported`: deep_copy_txn returns Ok(None) for the root
UnsupportedType == RootNotFound

\* deep_copy up to the return of deep_copy_txn on the root, when that returns
\* before any recursion, or the entry into deep_copy_doc_txn or
\* deep_copy_database_txn
DeepCopyRoot ==
  /\ pc = "start"
  /\ \E c \in RootFetch :
       /\ published' = Remember(publish_view_id, c)
       /\ IF c.kind = "none"
            THEN /\ RootNotFound
                 /\ next_id' = next_id + 1
                 /\ UNCHANGED <<stack, db, duplicated_refs>>
            ELSE /\ duplicated_refs' = Put(duplicated_refs, publish_view_id, next_id)
                 /\ CASE collab_type = "Document" /\ c.kind = "doc" ->
                           /\ stack' = <<DocFrame(publish_view_id, next_id, c)>>
                           /\ next_id' = next_id + 1
                           /\ pc' = "copy"
                           /\ txn_state' = "open"
                           /\ UNCHANGED <<result, db>>
                      [] collab_type = "Document" /\ c.kind = "db" ->
                           \* Document::from_doc_state on a database payload
                           /\ Fail("Unhandled", "decode")
                           /\ next_id' = next_id + 1
                           /\ UNCHANGED <<stack, db>>
                      [] collab_type = "Database" /\ c.kind = "db" ->
                           /\ db' = DbFrame(publish_view_id, next_id, next_id + 1,
                                            EmptyId, publish_view_id, c)
                           /\ next_id' = next_id + 2
                           /\ pc' = "copy"
                           /\ txn_state' = "open"
                           /\ UNCHANGED <<result, stack>>
                      [] collab_type = "Database" /\ c.kind = "doc" ->
                           \* serde_json::from_slice::<PublishDatabaseData> on a document
                           /\ Fail("Parse", "json")
                           /\ next_id' = next_id + 1
                           /\ UNCHANGED <<stack, db>>
                      [] OTHER ->
                           /\ UnsupportedType
                           /\ next_id' = next_id + 1
                           /\ UNCHANGED <<stack, db>>
  /\ UNCHANGED <<other, publish_view_id, collab_type, views_to_add, workspace_databases,
                 root_view, ws_db_collab, folder, txn, stored, broadcasts>>

\* ------------------------------------------------------ deep_copy_doc_pages
RewriteMappedKeepsPageId(f, vid) ==
  [f EXCEPT !.view.children = Append(@, vid),
            !.i = @ + 1]

\* the page mention has a mapping: rewrite it and list the page as a child
RewriteMapped(f, vid) ==
  [f EXCEPT !.deltas[f.i] = vid,
            !.view.children = Append(@, vid),
            !.i = @ + 1]

IsUuidString(page_id) == page_id \notin {JsonNotString, BadUuidString}

\* page_id.as_str() is Some
IsString(page_id) == page_id # JsonNotString

HasMappingToSome(page_id) ==
  page_id \in DOMAIN duplicated_refs /\ duplicated_refs[page_id] # NoneRef

\* duplicated_refs.get_key_value(page_id_str) is Some
HasMapping(page_id) == page_id \in DOMAIN duplicated_refs

\* one iteration of `for page_id in page_ids`
DocPageMention ==
  /\ pc = "copy" /\ ~db.active /\ stack # <<>>
  /\ Top.phase = "pages" /\ Top.i <= Len(Top.deltas)
  /\ LET f == Top
         page_id == f.deltas[f.i]
     IN
     IF ~IsString(page_id)
     THEN /\ stack' = SetTop([f EXCEPT !.i = @ + 1])
          /\ UNCHANGED <<published, pc, duplicated_refs, next_id, result, txn_state>>
     ELSE IF HasMapping(page_id)
     THEN /\ stack' = SetTop(IF duplicated_refs[page_id] # NoneRef
                               THEN RewriteMapped(f, duplicated_refs[page_id])
                               ELSE [f EXCEPT !.i = @ + 1])
          /\ UNCHANGED <<published, pc, duplicated_refs, next_id, result, txn_state>>
     ELSE IF page_id = BadUuidString
     THEN /\ Fail("Parse", "uuid")
          /\ next_id' = next_id + 1
          /\ UNCHANGED <<published, stack, duplicated_refs>>
     ELSE \E c \in Fetch(page_id) :
          /\ published' = Remember(page_id, c)
          /\ next_id' = next_id + 1
          /\ UNCHANGED <<pc, result, txn_state>>
          /\ IF c.kind = "none"
               THEN /\ duplicated_refs' = Put(duplicated_refs, page_id, NoneRef)
                    /\ stack' = SetTop([f EXCEPT !.i = @ + 1])
               ELSE /\ duplicated_refs' = Put(duplicated_refs, page_id, next_id)
                    /\ stack' = Append(stack, DocFrame(page_id, next_id, c))
  /\ UNCHANGED <<other, publish_view_id, collab_type, db, views_to_add, workspace_databases,
                 root_view, ws_db_collab, folder, txn, stored, broadcasts>>

RewriteTextMapEntryNever(page_id) == page_id

\* the text_map entry after the pass: only existing mappings are used
RewriteTextMapEntry(page_id) ==
  IF page_id \in DOMAIN duplicated_refs
    THEN JsonOfOption(duplicated_refs[page_id])
    ELSE page_id

\* `// update text map`
DocTextMap ==
  /\ pc = "copy" /\ ~db.active /\ stack # <<>>
  /\ Top.phase = "pages" /\ Top.i > Len(Top.deltas)
  /\ stack' = SetTop([Top EXCEPT
         !.text_map = [k \in DOMAIN Top.text_map |-> RewriteTextMapEntry(Top.text_map[k])],
         !.phase = "databases"])
  /\ UNCHANGED <<other, publish_view_id, collab_type, published, pc, db, duplicated_refs,
                 views_to_add, workspace_databases, root_view, ws_db_collab, folder,
                 next_id, txn, txn_state, stored, broadcasts, result>>

\* -------------------------------------------------- deep_copy_doc_databases
\* `// take the 2nd last view in ancestor_views`: the old_view_id handed to
\* deep_copy_database_txn
OldViewId(block, c) == c.second_last

\* one iteration of `for (_block_id, block) in db_blocks`, up to the call of
\* deep_copy_database_txn
DocDatabaseBlock ==
  /\ pc = "copy" /\ ~db.active /\ stack # <<>>
  /\ Top.phase = "databases" /\ Top.j <= Len(Top.blocks)
  /\ LET f == Top
         block == f.blocks[f.j]
     IN
     IF block.view_id = MissingKey
     THEN /\ Fail("RecordNotFound", "view_id not found in block data")
          /\ UNCHANGED <<published, stack, db, next_id>>
     ELSE \E c \in Fetch(block.view_id) :
          /\ published' = Remember(block.view_id, c)
          /\ IF c.kind = "none"
               THEN /\ stack' = SetTop([f EXCEPT !.j = @ + 1])
                    /\ UNCHANGED <<pc, result, txn_state, db, next_id>>
               ELSE IF c.second_last = MissingKey
               THEN /\ Fail("RecordNotFound", "ancestor_views not found")
                    /\ UNCHANGED <<stack, db, next_id>>
               ELSE /\ db' = DbFrame(OldViewId(block, c), next_id + 1, next_id + 2,
                                     next_id, block.view_id, c)
                    /\ next_id' = next_id + 3
                    /\ UNCHANGED <<pc, result, txn_state, stack>>
  /\ UNCHANGED <<other, publish_view_id, collab_type, duplicated_refs, views_to_add,
                 workspace_databases, root_view, ws_db_collab, folder, txn, stored,
                 broadcasts>>

\* ------------------------------------------------------- deep_copy_doc_txn
AdoptChildNotListed(f, new_view) ==
  [f EXCEPT !.deltas[f.i] = new_view.id,
            !.i = @ + 1]

\* the caller's frame once deep_copy_txn returned Some(new_view) for its mention
AdoptChild(f, new_view) ==
  [f EXCEPT !.deltas[f.i] = new_view.id,
            !.view.children = Append(@, new_view.id),
            !.i = @ + 1]

\* the end of deep_copy_doc_txn: the rewritten document is inserted and the view
\* returned, to deep_copy for the root and to deep_copy_doc_pages for a mention
DocInsert ==
  /\ pc = "copy" /\ ~db.active /\ stack # <<>>
  /\ Top.phase = "databases" /\ Top.j > Len(Top.blocks)
  /\ LET f == Top IN
     /\ InsertCollab([CollabParams(f.view.id, "Document") EXCEPT
           !.deltas = f.deltas, !.text_map = f.text_map, !.blocks = f.blocks])
     /\ IF Len(stack) = 1
          THEN /\ root_view' = [f.view EXCEPT !.parent_view_id = DestViewId]
               /\ stack' = <<>>
               /\ UNCHANGED <<duplicated_refs, views_to_add>>
               /\ pc' = Flow(pc)
          ELSE LET caller == stack[Len(stack) - 1]
                   new_view == [f.view EXCEPT !.parent_view_id = caller.view.id]
               IN /\ stack' = [Pop EXCEPT ![Len(stack) - 1] = AdoptChild(caller, new_view)]
                  /\ duplicated_refs' = Put(duplicated_refs, f.old, new_view.id)
                  /\ views_to_add' = Append(views_to_add, new_view)
                  /\ UNCHANGED <<root_view, pc>>
  /\ UNCHANGED <<other, publish_view_id, collab_type, published, db, workspace_databases,
                 ws_db_collab, folder, next_id, txn_state, stored, broadcasts, result>>

\* ------------------------------------------------- deep_copy_database_txn
\* one iteration of `for (old_id, v) in &published_db.database_row_collabs`
DbRow ==
  /\ pc = "copy" /\ db.active /\ db.phase = "rows" /\ db.rows_left # {}
  /\ \E old_id \in db.rows_left :
       /\ InsertCollab([CollabParams(next_id, "DatabaseRow") EXCEPT
             !.database_id = db.new_db_id])
       /\ db' = [db EXCEPT !.rows_left = @ \ {old_id},
                           !.row_map = Put(@, old_id, next_id)]
  /\ next_id' = next_id + 1
  /\ UNCHANGED <<other, publish_view_id, collab_type, published, pc, stack, duplicated_refs,
                 views_to_add, workspace_databases, root_view, ws_db_collab, folder,
                 txn_state, stored, broadcasts, result>>

RetainedAll(d) == d.c.db_views

\* the views of the database that are kept
Retained(d) ==
  SelectSeq(d.c.db_views, LAMBDA v : v.id = d.old_view_id \/ v.id \in d.c.visible)

\* view_info_by_view_id
ViewInfoIds(d) == {d.meta_view_id} \cup d.c.child_views

\* the id a kept view gets: new_view_id for the main view, a fresh one otherwise
NewDbViewId(d, rs, k) ==
  IF rs[k].id = d.old_view_id
    THEN d.new_view_id
    ELSE next_id + Cardinality({m \in 1..(k - 1) : rs[m].id # d.old_view_id})

RewriteRowOrdersToFirst(row_orders, row_map) ==
  [m \in DOMAIN row_orders |-> row_map[row_orders[1]]]

\* `// update all views's row's id`
RewriteRowOrders(row_orders, row_map) ==
  [m \in DOMAIN row_orders |-> row_map[row_orders[m]]]

\* the kept views as they are written back into the database
RewriteDbViews(d, rs) ==
  [k \in DOMAIN rs |->
     [id |-> NewDbViewId(d, rs, k), database_id |-> d.new_db_id,
      row_orders |-> RewriteRowOrders(rs[k].row_orders, d.row_map)]]

LinkedViewsMainOnly(d, rs) == <<d.new_view_id>>

\* new_db_view_ids: the new id of every kept view, in the order of the views
LinkedViews(d, rs) == [k \in DOMAIN rs |-> NewDbViewId(d, rs, k)]

RegisterDatabaseLater(d, rs) == workspace_databases

\* `// Add this database as linked view`
RegisterDatabase(d, rs) == Put(workspace_databases, d.new_db_id, LinkedViews(d, rs))

OtherFolderViewsNoParent(d, rs) ==
  LET all == [k \in DOMAIN rs |->
                [main |-> rs[k].id = d.old_view_id,
                 view |-> NewFolderView(NewDbViewId(d, rs, k), "Grid")]]
      others == SelectSeq(all, LAMBDA x : ~x.main)
  IN [k \in DOMAIN others |-> others[k].view]

\* the folder views of the kept views other than the main one
OtherFolderViews(d, rs) ==
  LET all == [k \in DOMAIN rs |->
                [main |-> rs[k].id = d.old_view_id,
                 view |-> [NewFolderView(NewDbViewId(d, rs, k), "Grid")
                             EXCEPT !.parent_view_id = d.new_view_id]]]
      others == SelectSeq(all, LAMBDA x : ~x.main)
  IN [k \in DOMAIN others |-> others[k].view]

DbViewsErrorNoMainCheck(d, rs) ==
  IF rs = <<>> THEN "no (visible) views found in database"
  ELSE IF \E k \in DOMAIN rs : rs[k].id # d.old_view_id /\ rs[k].id \notin ViewInfoIds(d)
    THEN "metadata not found for view"
  ELSE IF \E k \in DOMAIN rs : \E m \in DOMAIN rs[k].row_orders :
            rs[k].row_orders[m] \notin DOMAIN d.row_map
    THEN "row not found"
  ELSE ""

\* the error `let ret_view = { ... }` returns, "" when it returns none
DbViewsError(d, rs) ==
  IF rs = <<>> THEN "no (visible) views found in database"
  ELSE IF \E k \in DOMAIN rs : rs[k].id # d.old_view_id /\ rs[k].id \notin ViewInfoIds(d)
    THEN "metadata not found for view"
  ELSE IF \A k \in DOMAIN rs : rs[k].id # d.old_view_id THEN "main view not found"
  ELSE IF \E k \in DOMAIN rs : \E m \in DOMAIN rs[k].row_orders :
            rs[k].row_orders[m] \notin DOMAIN d.row_map
    THEN "row not found"
  ELSE ""

\* the kept views the loop over db_views went through before it returned an
\* error: all of them unless the metadata of one was not found
ViewsBeforeError(d, rs) ==
  LET bad == {k \in DOMAIN rs : rs[k].id # d.old_view_id /\ rs[k].id \notin ViewInfoIds(d)}
  IN IF bad = {} THEN rs
     ELSE SubSeq(rs, 1, (CHOOSE k \in bad : \A m \in bad : k <= m) - 1)

\* `let ret_view = { ... }`: the header, the views and the row orders of the
\* database are rewritten in one CRDT transaction
DbViews ==
  /\ pc = "copy" /\ db.active /\ db.phase = "rows" /\ db.rows_left = {}
  /\ LET rs == Retained(db)
         err == DbViewsError(db, rs)
     IN
     IF err # ""
     THEN /\ Fail("RecordNotFound", err)
          /\ views_to_add' = views_to_add \o OtherFolderViews(db, ViewsBeforeError(db, rs))
          /\ next_id' = next_id + Len(OtherFolderViews(db, ViewsBeforeError(db, rs)))
          /\ UNCHANGED <<db, workspace_databases>>
     ELSE /\ db' = [db EXCEPT !.db_views = RewriteDbViews(db, rs),
                              !.ret_view = NewFolderView(db.new_view_id, "Grid"),
                              !.phase = "insert"]
          /\ views_to_add' = views_to_add \o OtherFolderViews(db, rs)
          /\ workspace_databases' = RegisterDatabase(db, rs)
          /\ next_id' = next_id + Len(OtherFolderViews(db, rs))
          /\ UNCHANGED <<pc, result, txn_state>>
  /\ UNCHANGED <<other, publish_view_id, collab_type, published, stack, duplicated_refs,
                 root_view, ws_db_collab, folder, txn, stored, broadcasts>>

\* `// insert database with modified row_id references`, and the return of the
\* view: to deep_copy for the root, to deep_copy_doc_databases for a block
DbInsert ==
  /\ pc = "copy" /\ db.active /\ db.phase = "insert"
  /\ InsertCollab([CollabParams(db.new_db_id, "Database") EXCEPT
        !.database_id = db.new_db_id, !.db_views = db.db_views])
  /\ db' = NoDb
  /\ IF stack = <<>>
       THEN /\ root_view' = [db.ret_view EXCEPT !.parent_view_id = DestViewId]
            /\ pc' = Flow(pc)
            /\ UNCHANGED <<stack, views_to_add, workspace_databases, result, txn_state>>
       ELSE LET f == Top
                block == f.blocks[f.j]
                new_folder_db_view == [db.ret_view EXCEPT !.parent_view_id = f.view.id]
                db_view_in_doc == [NewFolderView(db.new_block_view_id, "Grid")
                                     EXCEPT !.parent_view_id = db.new_view_id]
            IN
            /\ UNCHANGED root_view
            /\ views_to_add' = views_to_add \o <<new_folder_db_view, db_view_in_doc>>
            /\ IF db.new_db_id \notin DOMAIN workspace_databases
                 THEN /\ Fail("RecordNotFound", "workspace database not found")
                      /\ UNCHANGED <<stack, workspace_databases>>
                 ELSE /\ workspace_databases' =
                           [workspace_databases EXCEPT
                              ![db.new_db_id] = Append(@, db.new_block_view_id)]
                      /\ IF block.parent_id = MissingKey
                           THEN /\ Fail("RecordNotFound", "parent_id not found in block data")
                                /\ UNCHANGED stack
                           ELSE /\ stack' = SetTop([f EXCEPT
                                      !.blocks[f.j] = [view_id |-> db.new_block_view_id,
                                                       parent_id |-> db.new_view_id],
                                      !.j = @ + 1])
                                /\ UNCHANGED <<pc, result, txn_state>>
  /\ UNCHANGED <<other, publish_view_id, collab_type, published, duplicated_refs,
                 ws_db_collab, folder, next_id, stored, broadcasts>>

\* ------------------------------------------------------------ finalisation
\* get_latest_collab_encoded: the latest state of a collab of the destination
Latest(oid) ==
  LET ks == {k \in DOMAIN stored : stored[k].object_id = oid}
  IN stored[CHOOSE k \in ks : \A m \in ks : m <= k]

\* broadcast_update: a frame reaches the group only if the group exists and
\* try_send succeeds
BroadcastUpdate(oid) ==
  \E sent \in BOOLEAN :
    broadcasts' = IF sent THEN Append(broadcasts, oid) ELSE broadcasts

\* add_database_with_txn for every entry of workspace_databases
AddDatabases(meta_list) ==
  [k \in DOMAIN meta_list \cup DOMAIN workspace_databases |->
     IF k \in DOMAIN workspace_databases THEN workspace_databases[k] ELSE meta_list[k]]

\* `// update database if any`, up to and with the broadcast of the update
WsDbUpdate ==
  /\ pc = "ws_db_fetch"
  /\ ws_db_collab' = AddDatabases(Latest(WsDbOid).ws_databases)
  /\ BroadcastUpdate(WsDbOid)
  /\ pc' = Flow(pc)
  /\ UNCHANGED <<other, publish_view_id, collab_type, published, stack, db, duplicated_refs,
                 views_to_add, workspace_databases, root_view, folder, next_id, txn,
                 txn_state, stored, result>>

\* the insert of the updated workspace-database collab
WsDbInsert ==
  /\ pc = "ws_db_insert"
  /\ InsertCollab([CollabParams(WsDbOid, "WorkspaceDatabase") EXCEPT
        !.ws_databases = ws_db_collab])
  /\ pc' = Flow(pc)
  /\ UNCHANGED <<other, publish_view_id, collab_type, published, stack, db, duplicated_refs,
                 views_to_add, workspace_databases, root_view, ws_db_collab, folder,
                 next_id, txn_state, stored, broadcasts, result>>

FolderViewsRootLast == views_to_add \o <<root_view>>

\* folder.get_updates_for_op: root_view, then views_to_add in insertion order
FolderViewsToInsert == <<root_view>> \o views_to_add

\* get_latest_collab_encoded of the folder, and the views inserted into it
FolderUpdate ==
  /\ pc = "folder_fetch"
  /\ folder' = Latest(WorkspaceId).folder_views \o FolderViewsToInsert
  /\ pc' = Flow(pc)
  /\ UNCHANGED <<other, publish_view_id, collab_type, published, stack, db, duplicated_refs,
                 views_to_add, workspace_databases, root_view, ws_db_collab,
                 next_id, txn, txn_state, stored, broadcasts, result>>

\* `// insert updated folder collab`
FolderInsert ==
  /\ pc = "folder_insert"
  /\ InsertCollab([CollabParams(WorkspaceId, "Folder") EXCEPT !.folder_views = folder])
  /\ pc' = Flow(pc)
  /\ UNCHANGED <<other, publish_view_id, collab_type, published, stack, db, duplicated_refs,
                 views_to_add, workspace_databases, root_view, ws_db_collab, folder,
                 next_id, txn_state, stored, broadcasts, result>>

\* `// broadcast folder changes`
FolderBroadcast ==
  /\ pc = "folder_broadcast"
  /\ BroadcastUpdate(WorkspaceId)
  /\ pc' = Flow(pc)
  /\ UNCHANGED <<other, publish_view_id, collab_type, published, stack, db, duplicated_refs,
                 views_to_add, workspace_databases, root_view, ws_db_collab, folder,
                 next_id, txn, txn_state, stored, result>>

CommitNeedsDelivery ==
  /\ pc = "commit"
  /\ IF \E k \in DOMAIN broadcasts : broadcasts[k] = WorkspaceId
       THEN /\ stored' = stored \o txn
            /\ txn_state' = "committed"
            /\ result' = [kind |-> "Ok", msg |-> ""]
       ELSE /\ stored' = stored
            /\ txn_state' = "rolled_back"
            /\ result' = [kind |-> "Internal", msg |-> "broadcast"]
  /\ pc' = "done"
  /\ UNCHANGED <<other, publish_view_id, collab_type, published, stack, db, duplicated_refs,
                 views_to_add, workspace_databases, root_view, ws_db_collab, folder,
                 next_id, txn, broadcasts>>

\* txn.commit(): the inserts of the transaction reach the destination workspace
Commit ==
  /\ pc = "commit"
  /\ stored' = stored \o txn
  /\ txn_state' = "committed"
  /\ result' = [kind |-> "Ok", msg |-> ""]
  /\ pc' = "done"
  /\ UNCHANGED <<other, publish_view_id, collab_type, published, stack, db, duplicated_refs,
                 views_to_add, workspace_databases, root_view, ws_db_collab, folder,
                 next_id, txn, broadcasts>>

\* the `?` of an await: a query, an insert or the commit returns an error
CanFail ==
  \/ pc \in {"start", "ws_db_fetch", "ws_db_insert", "folder_fetch", "folder_insert", "commit"}
  \/ /\ pc = "copy" /\ db.active
     /\ \/ db.phase = "rows" /\ db.rows_left # {}
        \/ db.phase = "insert"
  \/ /\ pc = "copy" /\ ~db.active /\ stack # <<>>
     /\ \/ /\ Top.phase = "pages" /\ Top.i <= Len(Top.deltas)
           /\ Top.deltas[Top.i] \in PageIds \ DOMAIN duplicated_refs
        \/ /\ Top.phase = "databases"
           /\ Top.j <= Len(Top.blocks) => Top.blocks[Top.j].view_id # MissingKey

IoErrorKeepsInserts ==
  /\ CanFail
  /\ pc' = "done"
  /\ result' = [kind |-> "Storage", msg |-> "sqlx"]
  /\ txn_state' = "rolled_back"
  /\ stored' = stored \o txn
  /\ UNCHANGED <<other, publish_view_id, collab_type, published, stack, db, duplicated_refs,
                 views_to_add, workspace_databases, root_view, ws_db_collab, folder,
                 next_id, txn, broadcasts>>

IoError ==
  /\ CanFail
  /\ Fail("Storage", "sqlx")
  /\ UNCHANGED <<other, publish_view_id, collab_type, published, stack, db, duplicated_refs,
                 views_to_add, workspace_databases, root_view, ws_db_collab, folder,
                 next_id, txn, stored, broadcasts>>

Next ==
  \/ DeepCopyRoot
  \/ DocPageMention
  \/ DocTextMap
  \/ DocDatabaseBlock
  \/ DocInsert
  \/ DbRow
  \/ DbViews
  \/ DbInsert
  \/ WsDbUpdate
  \/ WsDbInsert
  \/ FolderUpdate
  \/ FolderInsert
  \/ FolderBroadcast
  \/ Commit
  \/ IoError

Spec == Init /\ [][Next]_vars

\* the caller awaits the whole operation: a run that can take a step takes one
FairSpec == Spec /\ WF_vars(Next)

\* --------------------------------------------------------- a second run
NewRunKeepsRefs ==
  /\ pc = "done" /\ result.kind = "Ok"
  /\ stored = StoredBefore \o txn
  /\ pc' = "start"
  /\ stack' = <<>>
  /\ db' = NoDb
  /\ views_to_add' = <<>>
  /\ workspace_databases' = <<>>
  /\ root_view' = NoView
  /\ ws_db_collab' = <<>>
  /\ folder' = <<>>
  /\ txn' = <<>>
  /\ txn_state' = "none"
  /\ broadcasts' = <<>>
  /\ result' = [kind |-> "Running", msg |-> ""]
  /\ UNCHANGED <<other, publish_view_id, collab_type, published, next_id, stored, duplicated_refs>>

\* duplicate_published_collab_to_workspace called again with the same
\* publish_view_id and destination, after a first call returned Ok: a new
\* PublishCollabDuplicator with empty maps; the destination and the publish
\* store are as the first run left them, uuids stay fresh
NewRun ==
  /\ pc = "done" /\ result.kind = "Ok"
  /\ stored = StoredBefore \o txn
  /\ pc' = "start"
  /\ stack' = <<>>
  /\ db' = NoDb
  /\ duplicated_refs' = <<>>
  /\ views_to_add' = <<>>
  /\ workspace_databases' = <<>>
  /\ root_view' = NoView
  /\ ws_db_collab' = <<>>
  /\ folder' = <<>>
  /\ txn' = <<>>
  /\ txn_state' = "none"
  /\ broadcasts' = <<>>
  /\ result' = [kind |-> "Running", msg |-> ""]
  /\ UNCHANGED <<other, publish_view_id, collab_type, published, next_id, stored>>

NextTwice == Next \/ NewRun

\* two calls, one after the other
TwoRunSpec == Init /\ [][NextTwice]_vars

\* ----------------------------------------------------- a concurrent run
\* The steps of deep_copy from `// update database if any` on, taken by a second
\* run into the same destination while the first one is under way.
OtherStep(p, o) == other' = [o EXCEPT !.pc = p]

OtherWsDbUpdate ==
  /\ other.pc = "ws_db_fetch"
  /\ OtherStep("ws_db_insert", [other EXCEPT !.ws_db_collab =
        LET meta_list == Latest(WsDbOid).ws_databases IN
        [k \in DOMAIN meta_list \cup DOMAIN OtherWorkspaceDatabases |->
           IF k \in DOMAIN OtherWorkspaceDatabases
             THEN OtherWorkspaceDatabases[k] ELSE meta_list[k]]])
  /\ UNCHANGED <<publish_view_id, collab_type, published, pc, stack, db, duplicated_refs,
                 views_to_add, workspace_databases, root_view, ws_db_collab, folder,
                 next_id, txn, txn_state, stored, broadcasts, result>>

OtherWsDbInsert ==
  /\ other.pc = "ws_db_insert"
  /\ ~HeldByRun(WsDbOid)
  /\ OtherStep("folder_fetch", [other EXCEPT !.txn = Append(@,
        [CollabParams(WsDbOid, "WorkspaceDatabase") EXCEPT
           !.ws_databases = other.ws_db_collab])])
  /\ UNCHANGED <<publish_view_id, collab_type, published, pc, stack, db, duplicated_refs,
                 views_to_add, workspace_databases, root_view, ws_db_collab, folder,
                 next_id, txn, txn_state, stored, broadcasts, result>>

OtherFolderUpdate ==
  /\ other.pc = "folder_fetch"
  /\ OtherStep("folder_insert", [other EXCEPT !.folder =
        Latest(WorkspaceId).folder_views \o <<OtherRootView>>])
  /\ UNCHANGED <<publish_view_id, collab_type, published, pc, stack, db, duplicated_refs,
                 views_to_add, workspace_databases, root_view, ws_db_collab, folder,
                 next_id, txn, txn_state, stored, broadcasts, result>>

OtherFolderInsert ==
  /\ other.pc = "folder_insert"
  /\ ~HeldByRun(WorkspaceId)
  /\ OtherStep("commit", [other EXCEPT !.txn = Append(@,
        [CollabParams(WorkspaceId, "Folder") EXCEPT !.folder_views = other.folder])])
  /\ UNCHANGED <<publish_view_id, collab_type, published, pc, stack, db, duplicated_refs,
                 views_to_add, workspace_databases, root_view, ws_db_collab, folder,
                 next_id, txn, txn_state, stored, broadcasts, result>>

OtherCommit ==
  /\ other.pc = "commit"
  /\ OtherStep("done", other)
  /\ stored' = stored \o other.txn
  /\ UNCHANGED <<publish_view_id, collab_type, published, pc, stack, db, duplicated_refs,
                 views_to_add, workspace_databases, root_view, ws_db_collab, folder,
                 next_id, txn, txn_state, broadcasts, result>>

NextConcurrent ==
  \/ Next
  \/ OtherWsDbUpdate
  \/ OtherWsDbInsert
  \/ OtherFolderUpdate
  \/ OtherFolderInsert
  \/ OtherCommit

\* two calls into the same destination workspace at the same time
ConcurrentSpec == Init /\ [][NextConcurrent]_vars

\* ------------------------------------------------------------ properties
Finished == pc = "done"
Succeeded == result.kind = "Ok"
Failed == Finished /\ ~Succeeded

IsPublishedDoc(p) == p \in DOMAIN published /\ published[p].kind = "doc"
IsUnpublished(p) == p \in DOMAIN published /\ published[p].kind = "none"

\* the page ids a published document mentions in its block deltas
DeltaMentions(p) == Range(published[p].deltas) \cap PageIds

\* the published documents reachable from a set of them through page mentions
RECURSIVE ReachableDocs(_)
ReachableDocs(S) ==
  LET N == S \cup {q \in UNION {DeltaMentions(p) : p \in S} : IsPublishedDoc(q)}
  IN IF N = S THEN S ELSE ReachableDocs(N)

Inserted(ty) == {k \in DOMAIN txn : txn[k].collab_type = ty}
InsertedAs(oid, ty) == {k \in Inserted(ty) : txn[k].object_id = oid}

\* the Document collab inserted for the published document p
CopyOf(p) == txn[CHOOSE k \in InsertedAs(duplicated_refs[p], "Document") : TRUE]

OneCopyPerDocument ==
  LET R == ReachableDocs({publish_view_id}) IN
  /\ \A p \in R : /\ p \in DOMAIN duplicated_refs
                  /\ duplicated_refs[p] # NoneRef
                  /\ Cardinality(InsertedAs(duplicated_refs[p], "Document")) = 1
  /\ \A p, q \in R : p # q => duplicated_refs[p] # duplicated_refs[q]
  /\ Cardinality(Inserted("Document")) = Cardinality(R)

MentionsRewritten ==
  \A p \in ReachableDocs({publish_view_id}) :
    \A m \in DOMAIN published[p].deltas :
      IsPublishedDoc(published[p].deltas[m]) =>
        CopyOf(p).deltas[m] = duplicated_refs[published[p].deltas[m]]

\* C1: a run started on a published Document terminates, whatever the mention
\* graph (cycles and self mentions included); when it succeeds it has inserted
\* exactly one Document collab for each published document reachable from the
\* root through page mentions, and every block-delta mention of a published
\* document holds that document's one new id.
C1_CycleSafety ==
  /\ <>Finished
  /\ [](Succeeded /\ collab_type = "Document" => OneCopyPerDocument /\ MentionsRewritten)

\* a successful run on two documents that mention each other
C1_Witness ==
  /\ Succeeded /\ collab_type = "Document"
  /\ \E a, b \in PageIds :
       /\ a # b /\ a = publish_view_id
       /\ IsPublishedDoc(a) /\ IsPublishedDoc(b)
       /\ b \in DeltaMentions(a) /\ a \in DeltaMentions(b)

\* C2: a run that ends in an error has committed nothing: no collab with an id
\* allocated in the run is persisted in the destination workspace, and the
\* stored folder and workspace-database collabs are the ones from before.
C2_Atomicity ==
  Failed =>
    /\ txn_state # "committed"
    /\ \A k \in DOMAIN stored : stored[k].object_id \notin NewIdBase..(next_id - 1)
    /\ Latest(WorkspaceId) = StoredBefore[1]
    /\ Latest(WsDbOid) = StoredBefore[2]

\* the commit fails, after every collab and the folder were inserted
C2_Witness ==
  /\ Failed
  /\ Inserted("Folder") # {}
  /\ Inserted("Document") # {}

\* C3 as claimed: a run that has ended without committing has emitted no
\* broadcast.
C3_BroadcastOnlyOnCommit ==
  Finished /\ broadcasts # <<>> => txn_state = "committed"

AtCommit == pc = "commit" \/ Succeeded

\* C4 as claimed: at commit every Some(new_id) of duplicated_refs is the
\* object id of a collab inserted in the transaction, also for a Database root.
C4_EveryRefIsACollab ==
  AtCommit =>
    \A old \in DOMAIN duplicated_refs :
      duplicated_refs[old] # NoneRef =>
        \E k \in DOMAIN txn : txn[k].object_id = duplicated_refs[old]

\* C4, amended: at commit every Some(new_id) of duplicated_refs of a Document
\* run is the object id of a Document collab inserted in the transaction; in a
\* Database run the only entry is the root's, new_id is the id of the root view
\* and of a view of the Database collab inserted in the transaction, which
\* itself is stored under the new database id.
C4_ReferenceClosure ==
  AtCommit =>
    \A old \in DOMAIN duplicated_refs :
      duplicated_refs[old] # NoneRef =>
        IF collab_type = "Document"
          THEN InsertedAs(duplicated_refs[old], "Document") # {}
          ELSE /\ old = publish_view_id
               /\ root_view.id = duplicated_refs[old]
               /\ \E k \in Inserted("Database") :
                    /\ txn[k].object_id # duplicated_refs[old]
                    /\ \E v \in Range(txn[k].db_views) : v.id = duplicated_refs[old]

\* a Database root about to be committed
C4_Witness ==
  /\ pc = "commit"
  /\ collab_type = "Database"
  /\ duplicated_refs[publish_view_id] # NoneRef

\* C5 as claimed: in every inserted copy of a document, a page mention whose
\* target is unpublished keeps its page_id, in the block deltas and in the
\* text_map, and the target is recorded as None.
C5_TombstonePreserved ==
  \A p \in DOMAIN duplicated_refs :
    (IsPublishedDoc(p) /\ duplicated_refs[p] # NoneRef
       /\ InsertedAs(duplicated_refs[p], "Document") # {}) =>
      /\ \A m \in DOMAIN published[p].deltas :
           IsUnpublished(published[p].deltas[m]) =>
             /\ CopyOf(p).deltas[m] = published[p].deltas[m]
             /\ duplicated_refs[published[p].deltas[m]] = NoneRef
      /\ \A m \in DOMAIN published[p].text_map :
           IsUnpublished(published[p].text_map[m]) =>
             CopyOf(p).text_map[m] = published[p].text_map[m]

\* C6 as claimed: when A mentions B, B mentions A and the run starts on A, two
\* Document collabs are inserted, A' has B' as its child and B' has no child.
C6_CycleChildren ==
  \A b \in PageIds \ {publish_view_id} :
    (/\ Succeeded /\ collab_type = "Document"
     /\ IsPublishedDoc(b)
     /\ published[publish_view_id].deltas = <<b>>
     /\ published[b].deltas = <<publish_view_id>>) =>
      /\ Cardinality(Inserted("Document")) = 2
      /\ root_view.children = <<duplicated_refs[b]>>
      /\ \A k \in DOMAIN views_to_add :
           views_to_add[k].id = duplicated_refs[b] => views_to_add[k].children = <<>>

AtFolderUpdate == pc \in {"folder_fetch", "folder_insert", "folder_broadcast", "commit"}

\* C7: when the folder is updated, every view of root_view and views_to_add has
\* as parent_view_id dest_view_id, the root view's id or the id of another view
\* of the set, and never the empty id.
C7_NoOrphans ==
  AtFolderUpdate =>
    LET vs == FolderViewsToInsert IN
    \A k \in DOMAIN vs :
      /\ vs[k].parent_view_id # EmptyId
      /\ \/ vs[k].parent_view_id = DestViewId
         \/ vs[k].parent_view_id = root_view.id
         \/ \E m \in DOMAIN vs : m # k /\ vs[m].id = vs[k].parent_view_id

\* a document whose database block brought a folder view, a sibling view and
\* an in-document view
C7_Witness ==
  /\ pc = "folder_insert"
  /\ collab_type = "Document"
  /\ \E a, b, c \in DOMAIN views_to_add :
       /\ a # b /\ b # c /\ a # c
       /\ views_to_add[a].parent_view_id = root_view.id
       /\ views_to_add[b].parent_view_id = views_to_add[a].id
       /\ views_to_add[c].parent_view_id = views_to_add[a].id

\* C8 as claimed: in a run that succeeds, every child of every view the run
\* created (root_view and views_to_add, as handed to the folder update) is a
\* view the destination folder held before the update or a view of
\* views_to_add.
C8_ChildrenClosure ==
  Succeeded =>
    \A v \in Range(FolderViewsToInsert) :
      \A c \in Range(v.children) :
        \/ \E x \in Range(StoredBefore[1].folder_views) : x.id = c
        \/ \E x \in Range(views_to_add) : x.id = c

\* C9: every row order of an inserted Database collab is the object id of a
\* DatabaseRow collab of that database inserted in the same transaction; the
\* rewritten views have the row orders of the published views they come from,
\* position by position, under one injective renaming of the row ids; and a
\* kept view with a row order that the published row map lacks makes the copy
\* fail with RecordNotFound.
C9_RowOrderIntegrity ==
  /\ \A k \in Inserted("Database") :
       \A v \in Range(txn[k].db_views) :
         \A r \in Range(v.row_orders) :
           \E j \in Inserted("DatabaseRow") : txn[j].object_id = r
  /\ (db.active /\ db.phase = "insert") =>
       LET old == Retained(db)
           new == db.db_views
       IN /\ Len(new) = Len(old)
          /\ \A k \in DOMAIN old : Len(new[k].row_orders) = Len(old[k].row_orders)
          /\ \A k1, k2 \in DOMAIN old :
               \A m1 \in DOMAIN old[k1].row_orders, m2 \in DOMAIN old[k2].row_orders :
                 (old[k1].row_orders[m1] = old[k2].row_orders[m2])
                   <=> (new[k1].row_orders[m1] = new[k2].row_orders[m2])
  /\ (/\ Finished /\ db.active /\ db.phase = "rows" /\ db.rows_left = {}
      /\ \E v \in Range(Retained(db)) : \E r \in Range(v.row_orders) : r \notin db.c.rows)
       => result.kind = "RecordNotFound"

\* a kept view with two different rows, rewritten
C9_Witness ==
  /\ db.active /\ db.phase = "insert"
  /\ \E v \in Range(db.db_views) :
       Len(v.row_orders) = 2 /\ v.row_orders[1] # v.row_orders[2]

\* C10: in the transaction the DatabaseRow collabs of a database come before
\* its Database collab, the Folder collab comes after every other collab, and
\* the folder broadcast is the last broadcast.
C10_InsertOrdering ==
  /\ \A k \in Inserted("Database") :
       /\ \A j \in Inserted("DatabaseRow") :
            txn[j].database_id = txn[k].object_id => j < k
       /\ \A v \in Range(txn[k].db_views) : \A r \in Range(v.row_orders) :
            \E j \in Inserted("DatabaseRow") : j < k /\ txn[j].object_id = r
  /\ \A k \in Inserted("Folder") : k = Len(txn)
  /\ \A k \in DOMAIN broadcasts : broadcasts[k] = WorkspaceId => k = Len(broadcasts)

\* a committed run that inserted rows, a database, a document, the workspace
\* database and the folder, and broadcast twice
C10_Witness ==
  /\ Succeeded
  /\ Inserted("DatabaseRow") # {} /\ Inserted("Database") # {}
  /\ Inserted("Document") # {} /\ Inserted("WorkspaceDatabase") # {}
  /\ broadcasts = <<WsDbOid, WorkspaceId>>

\* the destination as the run found it: nothing inserted, read, stored or sent
DestinationUntouched ==
  /\ txn = <<>>
  /\ folder = <<>> /\ ws_db_collab = <<>>
  /\ stored = StoredBefore
  /\ broadcasts = <<>>

IsPublished(p) == p \in DOMAIN published /\ published[p].kind # "none"

C13_BroadcastBestEffort ==
  /\ [][(pc = "folder_broadcast" /\ broadcasts' = broadcasts) =>
          (pc' = "commit" /\ txn_state' = "open" /\ result' = result /\ txn' = txn)]_vars
  /\ [][(pc = "ws_db_fetch" /\ ws_db_collab' # ws_db_collab /\ broadcasts' = broadcasts) =>
          (pc' = "ws_db_insert" /\ txn_state' = "open" /\ result' = result /\ txn' = txn)]_vars
  /\ [][(pc = "commit" /\ result'.kind # "Storage") =>
          (result'.kind = "Ok" /\ txn_state' = "committed" /\ stored' = stored \o txn)]_vars
  /\ [](Succeeded => txn_state = "committed" /\ stored = StoredBefore \o txn)

\* a run that duplicated a database returned Ok although neither the
\* workspace-database nor the folder broadcast was delivered
C13_Witness ==
  /\ Succeeded
  /\ DOMAIN workspace_databases # {}
  /\ broadcasts = <<>>
  /\ stored = StoredBefore \o txn

\* what an earlier committed run left in the destination
Earlier ==
  SubSeq(stored, Len(StoredBefore) + 1,
         IF txn_state = "committed" THEN Len(stored) - Len(txn) ELSE Len(stored))

ViewIdsOf(views) ==
  UNION {{v.id, v.parent_view_id} \cup Range(v.children) : v \in Range(views)}

\* every id that occurs in a collab
IdsIn(c) ==
  {c.object_id, c.database_id}
    \cup Range(c.deltas) \cup Range(c.text_map)
    \cup UNION {{b.view_id, b.parent_id} : b \in Range(c.blocks)}
    \cup UNION {{v.id, v.database_id} \cup Range(v.row_orders) : v \in Range(c.db_views)}
    \cup ViewIdsOf(c.folder_views)
    \cup DOMAIN c.ws_databases \cup UNION {Range(c.ws_databases[k]) : k \in DOMAIN c.ws_databases}

Generated(ids) == {x \in ids : x >= NewIdBase}

\* the generated ids an earlier run left in the destination
EarlierIds == Generated(UNION {IdsIn(Earlier[k]) : k \in DOMAIN Earlier})

\* the generated ids the current run holds or has inserted; the folder and the
\* workspace-database collab, which carry over what the destination held, are
\* taken from root_view, views_to_add and workspace_databases
RunIds ==
  Generated(
    UNION {IdsIn(txn[k]) : k \in DOMAIN txn \ (Inserted("Folder") \cup Inserted("WorkspaceDatabase"))}
      \cup ViewIdsOf(FolderViewsToInsert)
      \cup {duplicated_refs[k] : k \in DOMAIN duplicated_refs}
      \cup DOMAIN workspace_databases
      \cup UNION {Range(workspace_databases[k]) : k \in DOMAIN workspace_databases})

\* C14: a second run with the same publish_view_id into the same destination
\* makes an independent duplicate: no generated id of the second run is an id
\* the first run left in the destination, and once the second run has
\* committed the stored folder holds the views of the first run as well as the
\* root view and added views of the second, and the stored workspace database
\* the databases of both.
C14_IndependentDuplicates ==
  /\ RunIds \cap EarlierIds = {}
  /\ (Succeeded /\ Earlier # <<>>) =>
       LET first == Earlier[CHOOSE k \in DOMAIN Earlier : Earlier[k].collab_type = "Folder"]
           now == Latest(WorkspaceId).folder_views
       IN /\ Range(first.folder_views) \subseteq Range(now)
          /\ Range(FolderViewsToInsert) \subseteq Range(now)
          /\ Range(FolderViewsToInsert) \cap Range(first.folder_views) = {}
          /\ Len(now) = Len(first.folder_views) + Len(FolderViewsToInsert)
          /\ Cardinality(Inserted("Document"))
               = Cardinality({k \in DOMAIN Earlier : Earlier[k].collab_type = "Document"})
          /\ \A k \in DOMAIN Earlier :
               Earlier[k].collab_type = "WorkspaceDatabase" =>
                 DOMAIN Earlier[k].ws_databases \subseteq DOMAIN Latest(WsDbOid).ws_databases
          /\ DOMAIN workspace_databases \subseteq DOMAIN Latest(WsDbOid).ws_databases

\* the second run has committed a document with a child page and an embedded
\* database
C14_Witness ==
  /\ Succeeded /\ Earlier # <<>>
  /\ Cardinality(Inserted("Document")) = 2
  /\ Inserted("Database") # {}

\* ids by what they name in the current run
ObjectIds(ty) == {txn[k].object_id : k \in Inserted(ty)}
FolderViewIds == {v.id : v \in Range(views_to_add)} \cup ({root_view.id} \ {EmptyId})
DatabaseViewIds ==
  UNION {{v.id : v \in Range(txn[k].db_views)} : k \in Inserted("Database")}
DestinationIds ==
  {WorkspaceId, WsDbOid} \cup UNION {IdsIn(StoredBefore[k]) : k \in DOMAIN StoredBefore}

\* C15: within a run no object id is inserted twice, the views added to the
\* folder have pairwise different ids and so have the views written into the
\* duplicated databases, the ids of rows, of databases and of views are
\* different from each other, and none of them is an id of the destination.
C15_IdUniqueness ==
  /\ \A j, k \in DOMAIN txn : j # k => txn[j].object_id # txn[k].object_id
  /\ \A j, k \in DOMAIN views_to_add :
       j # k => views_to_add[j].id # views_to_add[k].id
  /\ \A k \in DOMAIN views_to_add : views_to_add[k].id # root_view.id
  /\ \A j, k \in Inserted("Database") :
       /\ \A m, n \in DOMAIN txn[j].db_views :
            (j # k \/ m # n) /\ n \in DOMAIN txn[k].db_views =>
              txn[j].db_views[m].id # txn[k].db_views[n].id
  /\ ObjectIds("DatabaseRow") \cap ObjectIds("Database") = {}
  /\ ObjectIds("DatabaseRow") \cap (FolderViewIds \cup DatabaseViewIds) = {}
  /\ ObjectIds("Database") \cap (FolderViewIds \cup DatabaseViewIds) = {}
  /\ ObjectIds("Document") \cap (ObjectIds("Database") \cup ObjectIds("DatabaseRow")) = {}
  /\ (ObjectIds("Document") \cup ObjectIds("Database") \cup ObjectIds("DatabaseRow")
        \cup FolderViewIds \cup DatabaseViewIds) \cap DestinationIds = {}

\* a committed run on a document in which two blocks embed the same published
\* database
C15_Witness ==
  /\ Succeeded
  /\ Cardinality(Inserted("Database")) = 2
  /\ \E p \in PageIds :
       /\ IsPublishedDoc(p) /\ Len(published[p].blocks) = 2
       /\ published[p].blocks[1].view_id = published[p].blocks[2].view_id

\* the new ids of the views the database copies were made for: the root view
\* of a Database run, the database folder views of a Document run
MainViewIds ==
  IF collab_type = "Database" THEN {root_view.id}
  ELSE {v.id : v \in {w \in Range(views_to_add) :
                        w.layout = "Grid" /\ w.parent_view_id \in ObjectIds("Document")}}

\* the view ids of a Database collab, in the order of its views
ViewIdSeq(c) == [m \in DOMAIN c.db_views |-> c.db_views[m].id]

\* the in-document view ids the inserted documents carry in their blocks
BlockViewIds ==
  UNION {{b.view_id : b \in Range(txn[k].blocks)} : k \in Inserted("Document")}

\* what C16 says of the entry of one duplicated database, but for the place of
\* the main view in it
LinkedEntry(c) ==
  /\ c.object_id \in DOMAIN workspace_databases
  /\ LET L == workspace_databases[c.object_id]
         V == ViewIdSeq(c)
     IN /\ L # <<>>
        /\ Cardinality({m \in DOMAIN V : V[m] \in MainViewIds}) = 1
        /\ IF collab_type = "Database"
             THEN L = V
             ELSE /\ Len(L) = Len(V) + 1
                  /\ SubSeq(L, 1, Len(V)) = V
                  /\ L[Len(L)] \in BlockViewIds
                  /\ L[Len(L)] \notin Range(V)
        /\ Cardinality(Inserted("WorkspaceDatabase")) = 1
        /\ \A w \in Inserted("WorkspaceDatabase") :
             /\ c.object_id \in DOMAIN txn[w].ws_databases
             /\ txn[w].ws_databases[c.object_id] = L

\* C16 as claimed: at commit the entry of every duplicated database starts
\* with the new id of the main duplicated view, followed by the new ids of the
\* other kept views and, for an embedded database, the in-document view id.
C16_MainViewFirst ==
  AtCommit =>
    \A k \in Inserted("Database") :
      /\ LinkedEntry(txn[k])
      /\ workspace_databases[txn[k].object_id][1] \in MainViewIds

\* C16, amended: at commit the entry of every duplicated database is not
\* empty and holds the new ids of the kept views in the order in which the
\* database yields its views, the new id of the main duplicated view among
\* them once and at the place of that view, not always first; for an embedded
\* database the in-document view id follows as the last element; the
\* workspace-database collab is inserted once and carries that entry.
C16_LinkedViews ==
  AtCommit => \A k \in Inserted("Database") : LinkedEntry(txn[k])

\* a database with two kept views, embedded by one block: three view ids
C16_Witness ==
  /\ pc = "commit" /\ collab_type = "Document"
  /\ \E k \in Inserted("Database") :
       /\ Len(txn[k].db_views) = 2
       /\ Len(workspace_databases[txn[k].object_id]) = 3

\* the workspace-database step of deep_copy is behind the run
PastWsDbStep == AtFolderUpdate \/ Succeeded

\* C17: the workspace-database collab is fetched and updated, broadcast and
\* inserted exactly when the run duplicated a database; a run that duplicated
\* none leaves the stored workspace database as it was, hands the folder one
\* view with parent_view_id = dest_view_id, the root view, and sends no
\* broadcast but the folder's.
C17_WsDbOnlyWithDatabases ==
  /\ Inserted("Database") # {} => DOMAIN workspace_databases # {}
  /\ PastWsDbStep => (DOMAIN workspace_databases # {} => Inserted("Database") # {})
  /\ ws_db_collab # <<>> => DOMAIN workspace_databases # {}
  /\ Inserted("WorkspaceDatabase") # {} => ws_db_collab # <<>>
  /\ (\E k \in DOMAIN broadcasts : broadcasts[k] = WsDbOid) => ws_db_collab # <<>>
  /\ PastWsDbStep =>
       /\ DOMAIN workspace_databases # {} =>
            /\ ws_db_collab # <<>>
            /\ Cardinality(Inserted("WorkspaceDatabase")) = 1
       /\ Cardinality({k \in DOMAIN FolderViewsToInsert :
                         FolderViewsToInsert[k].parent_view_id = DestViewId}) = 1
       /\ root_view.parent_view_id = DestViewId
  /\ (Succeeded /\ Inserted("Database") = {}) =>
       /\ Latest(WsDbOid) = StoredBefore[2]
       /\ Inserted("WorkspaceDatabase") = {}
       /\ \A k \in DOMAIN broadcasts : broadcasts[k] = WorkspaceId
       /\ Len(broadcasts) <= 1
  /\ (Succeeded /\ Inserted("Database") # {}) =>
       DOMAIN Latest(WsDbOid).ws_databases = DOMAIN workspace_databases

\* a committed run on a document with a child page and a database block whose
\* view is not published: the folder broadcast alone was sent
C17_Witness ==
  /\ Succeeded /\ collab_type = "Document"
  /\ Inserted("Database") = {}
  /\ Cardinality(Inserted("Document")) = 2
  /\ \E p \in PageIds :
       /\ IsPublishedDoc(p)
       /\ \E b \in Range(published[p].blocks) : IsUnpublished(b.view_id)
  /\ broadcasts = <<WorkspaceId>>

\* the view the run made for the published document p
ViewOfCopy(p) ==
  CHOOSE v \in Range(FolderViewsToInsert) : v.id = duplicated_refs[p]

\* C18: when the copy B' of a published document B, reached for the first time
\* through a page mention in document A, returns to the copy of A, then B' has
\* parent_view_id = A'.id and is appended to views_to_add, A'.children gets
\* B'.id appended, duplicated_refs maps B to B'.id and the mention's page_id is
\* B'.id; and when the folder is updated every copied document but the root is
\* one view of views_to_add whose parent is the copy of a document mentioning
\* it and lists it as a child.
C18_ChildDocument ==
  /\ [][(Len(stack) >= 2 /\ Len(stack') = Len(stack) - 1 /\ result' = result) =>
          LET B == stack[Len(stack)]
              A == stack[Len(stack) - 1]
              A1 == stack'[Len(stack')]
          IN /\ A.deltas[A.i] = B.old
             /\ Len(views_to_add') = Len(views_to_add) + 1
             /\ SubSeq(views_to_add', 1, Len(views_to_add)) = views_to_add
             /\ views_to_add'[Len(views_to_add')].id = B.view.id
             /\ views_to_add'[Len(views_to_add')].parent_view_id = A.view.id
             /\ views_to_add'[Len(views_to_add')].children = B.view.children
             /\ A1.view.id = A.view.id
             /\ A1.view.children = Append(A.view.children, B.view.id)
             /\ duplicated_refs'[B.old] = B.view.id
             /\ A1.deltas = [A.deltas EXCEPT ![A.i] = B.view.id]
             /\ \E k \in DOMAIN txn' : /\ txn'[k].object_id = B.view.id
                                      /\ txn'[k].collab_type = "Document"]_vars
  /\ [](AtFolderUpdate /\ collab_type = "Document" =>
          \A b \in DOMAIN duplicated_refs \ {publish_view_id} :
            duplicated_refs[b] # NoneRef =>
              /\ Cardinality({k \in DOMAIN views_to_add :
                                views_to_add[k].id = duplicated_refs[b]}) = 1
              /\ \E a \in DOMAIN duplicated_refs :
                   /\ IsPublishedDoc(a) /\ duplicated_refs[a] # NoneRef
                   /\ b \in DeltaMentions(a)
                   /\ ViewOfCopy(b).parent_view_id = duplicated_refs[a]
                   /\ duplicated_refs[b] \in Range(ViewOfCopy(a).children)
                   /\ \A m \in DOMAIN published[a].deltas :
                        published[a].deltas[m] = b => CopyOf(a).deltas[m] = duplicated_refs[b])

\* the root mentions B, B mentions C, all published: C' is a child of B', B' of
\* the root's copy
C18_Witness ==
  /\ pc = "folder_fetch" /\ collab_type = "Document"
  /\ \E b, c \in PageIds \ {publish_view_id} :
       /\ b # c /\ IsPublishedDoc(b) /\ IsPublishedDoc(c)
       /\ published[publish_view_id].deltas = <<b>>
       /\ published[b].deltas = <<c>>
       /\ ViewOfCopy(c).parent_view_id = duplicated_refs[b]
       /\ ViewOfCopy(b).parent_view_id = root_view.id

\* C19: when the copy of a database embedded in a document returns, the entry
\* of new_db_id exists in workspace_databases: the append of new_block_view_id
\* is made, and no run fails with RecordNotFound("workspace database not
\* found").
C19_AppendSucceeds ==
  /\ result.msg # "workspace database not found"
  /\ (db.active /\ db.phase = "insert" /\ stack # <<>>) =>
       db.new_db_id \in DOMAIN workspace_databases
  /\ collab_type = "Document" =>
       \A k \in Inserted("Database") :
         /\ txn[k].object_id \in DOMAIN workspace_databases
         /\ Len(workspace_databases[txn[k].object_id]) = Len(txn[k].db_views) + 1

\* the copy of an embedded database has returned and its block is rewritten to
\* the in-document view id that was appended
C19_Witness ==
  /\ pc = "copy" /\ stack # <<>> /\ ~db.active
  /\ Top.phase = "databases" /\ Top.j > 1
  /\ \E k \in Inserted("Database") :
       LET L == workspace_databases[txn[k].object_id]
       IN L[Len(L)] = Top.blocks[Top.j - 1].view_id

\* the database block whose database is being copied
EmbeddingBlock == Top.blocks[Top.j]

\* the copy of an embedded database is running
CopyingEmbedded == pc = "copy" /\ db.active /\ stack # <<>>

\* the published views that got new_view_id, the id of the database folder view
MainViews ==
  {Retained(db)[k].id : k \in {m \in DOMAIN db.db_views : db.db_views[m].id = db.new_view_id}}

\* C20 as claimed: the copy of an embedded database runs with old_view_id =
\* the block's view_id and gives new_db_folder_view_id to the view with that
\* id, whatever ancestor_views holds; a short ancestor_views ends no run.
C20_MainViewIsBlockView ==
  /\ CopyingEmbedded =>
       /\ db.old_view_id = EmbeddingBlock.view_id
       /\ db.phase = "insert" => MainViews = {EmbeddingBlock.view_id}
  /\ result.msg # "ancestor_views not found"

\* the published documents the run has entered
EnteredDocs ==
  {p \in DOMAIN duplicated_refs : IsPublishedDoc(p) /\ duplicated_refs[p] # NoneRef}

\* C21 as claimed: a run that copied a document with a database block lacking
\* view_id or parent_id ends in a RecordNotFound or earlier error and commits
\* nothing, whether the block's view is published or not.
C21_MalformedBlockFails ==
  (Finished /\ \E p \in EnteredDocs : \E b \in Range(published[p].blocks) :
                 b.view_id = MissingKey \/ b.parent_id = MissingKey) =>
    /\ Failed
    /\ txn_state # "committed"

\* the published id of some view of the database being copied is old_view_id
HasMainView == \E k \in DOMAIN db.c.db_views : db.c.db_views[k].id = db.old_view_id

\* the row collabs the database copy has put into the transaction
RowCollabs ==
  {k \in DOMAIN txn : txn[k].collab_type = "DatabaseRow" /\ txn[k].database_id = db.new_db_id}

\* C22: a database copy returns a view only if old_view_id is the id of a view
\* of the database. When no view has that id the copy fails with RecordNotFound,
\* with the message "no (visible) views found in database" when no view is
\* visible either, and the run ends uncommitted with the store unchanged,
\* although a row collab was produced for every row.
C22_CopyNeedsMainView ==
  [][DbViews =>
       /\ db'.phase = "insert" => HasMainView
       /\ ~HasMainView =>
            /\ pc' = "done"
            /\ result'.kind = "RecordNotFound"
            /\ Retained(db) = <<>> =>
                 result'.msg = "no (visible) views found in database"
            /\ txn_state' = "rolled_back"
            /\ stored' = StoredBefore
            /\ Cardinality(RowCollabs) = Cardinality(db.c.rows)]_vars

\* a copy failed for want of the main view after a row collab and the folder
\* view of a sibling view were produced
C22_Witness ==
  /\ Failed
  /\ result.msg = "main view not found"
  /\ db.active /\ ~HasMainView
  /\ RowCollabs # {}
  /\ \E k \in DOMAIN views_to_add : views_to_add[k].parent_view_id = db.new_view_id

\* the published views of the database being copied that are old_view_id or
\* listed in visible_database_view_ids
KeptViews ==
  SelectSeq(db.c.db_views, LAMBDA v : v.id = db.old_view_id \/ v.id \in db.c.visible)

\* an id made in this run that names nothing but the k-th view of the database
\* and its folder view
FreshViewId(id, views, k) ==
  /\ id >= NewIdBase
  /\ id \notin {db.new_view_id, db.new_db_id, db.new_block_view_id, root_view.id}
  /\ \A m \in DOMAIN views : m # k => views[m].id # id
  /\ \A m \in DOMAIN txn : txn[m].object_id # id
  /\ \A p \in DOMAIN duplicated_refs : duplicated_refs[p] # id

\* C23: the Database collab a successful database copy inserts holds exactly the
\* kept views, in database new_db_id; the main view has id new_view_id, every
\* other view has a fresh id, and views_to_add holds exactly one folder view
\* with parent new_view_id for each of the other views.
C23_RetainedViews ==
  [][DbInsert =>
       LET c == txn'[Len(txn')]
           views == c.db_views
           siblings == {k \in DOMAIN views_to_add :
                          views_to_add[k].parent_view_id = db.new_view_id}
       IN
       /\ c.collab_type = "Database" /\ c.object_id = db.new_db_id
       /\ Len(views) = Len(KeptViews)
       /\ \A k \in DOMAIN views :
            /\ views[k].database_id = db.new_db_id
            /\ KeptViews[k].id = db.old_view_id => views[k].id = db.new_view_id
            /\ KeptViews[k].id # db.old_view_id =>
                 /\ FreshViewId(views[k].id, views, k)
                 /\ Cardinality({m \in siblings : views_to_add[m].id = views[k].id}) = 1
       /\ Cardinality(siblings) =
            Cardinality({k \in DOMAIN views : KeptViews[k].id # db.old_view_id})]_vars

\* a run succeeded in which a database with a main and another kept view was
\* copied
C23_Witness ==
  /\ Succeeded
  /\ \E k \in DOMAIN txn :
       /\ txn[k].collab_type = "Database"
       /\ Len(txn[k].db_views) = 2
       /\ \E m \in DOMAIN views_to_add :
            /\ views_to_add[m].id = txn[k].db_views[2].id
            /\ views_to_add[m].parent_view_id = txn[k].db_views[1].id

\* the pages no block delta of a document the run has entered mentions, the
\* page the run was started on aside
NotDeltaMentioned ==
  {p \in PageIds \ {publish_view_id} :
     \A q \in EnteredDocs : p \notin DeltaMentions(q)}

\* C24: the text_map pass copies nothing. It fetches nothing, maps nothing and
\* inserts nothing; a mention of a page mapped to a new id is rewritten to that
\* id and a mention of a page without a mapping is left as it is. A page that
\* only text_maps mention is never fetched, has no entry in duplicated_refs and
\* keeps its id in the text_map of every inserted document.
C24_TextMapPassCopiesNothing ==
  [][/\ DocTextMap =>
          /\ UNCHANGED <<published, duplicated_refs, txn, next_id, views_to_add>>
          /\ Len(stack') = Len(stack)
          /\ \A k \in DOMAIN Top.text_map :
               LET page_id == Top.text_map[k]
                   after == stack'[Len(stack)].text_map[k]
               IN /\ (page_id \in DOMAIN duplicated_refs
                        /\ duplicated_refs[page_id] # NoneRef) =>
                       after = duplicated_refs[page_id]
                  /\ page_id \notin DOMAIN duplicated_refs => after = page_id
     /\ \A p \in NotDeltaMentioned :
          /\ p \notin DOMAIN published'
          /\ p \notin DOMAIN duplicated_refs'
          /\ \A q \in EnteredDocs' : \A m \in InsertedAs(duplicated_refs[q], "Document")' :
               \A k \in DOMAIN published'[q].text_map :
                 published'[q].text_map[k] = p => txn'[m].text_map[k] = p]_vars

\* a committed document whose text_map mentioned a page mapped to a new id and
\* a page nothing else mentions: the first is rewritten, the second is kept and
\* was never fetched
C24_Witness ==
  /\ Succeeded /\ Finished
  /\ \E q \in EnteredDocs : \E m \in InsertedAs(duplicated_refs[q], "Document") :
       \E k1, k2 \in DOMAIN txn[m].text_map :
         /\ published[q].text_map[k1] \in DOMAIN duplicated_refs
         /\ txn[m].text_map[k1] = duplicated_refs[published[q].text_map[k1]]
         /\ txn[m].text_map[k1] >= NewIdBase
         /\ published[q].text_map[k2] \in NotDeltaMentioned
         /\ txn[m].text_map[k2] = published[q].text_map[k2]
         /\ published[q].text_map[k2] \notin DOMAIN published

\* the page mention the block-delta loop is at
AtMention(page_id) ==
  /\ pc = "copy" /\ ~db.active /\ stack # <<>>
  /\ Top.phase = "pages" /\ Top.i <= Len(Top.deltas)
  /\ Top.deltas[Top.i] = page_id

\* C25: a page mention whose page_id is a string that is no UUID ends the run
\* with a parse error, uncommitted and with the store unchanged; a page_id that
\* is not a string is skipped: the loop goes on to the next mention and nothing
\* else changes. No run that entered a document with a non-UUID string mention
\* succeeds.
C25_BadPageId ==
  [][/\ (DocPageMention /\ AtMention(BadUuidString)) =>
          /\ pc' = "done"
          /\ result'.kind = "Parse"
          /\ txn_state' = "rolled_back"
          /\ stored' = StoredBefore
     /\ (DocPageMention /\ AtMention(JsonNotString)) =>
          /\ stack' = SetTop([Top EXCEPT !.i = @ + 1])
          /\ UNCHANGED <<pc, result, txn_state, published, duplicated_refs, txn,
                         views_to_add, next_id>>
     /\ (Finished' /\ Succeeded') =>
          \A p \in EnteredDocs' : BadUuidString \notin Range(published'[p].deltas)]_vars

\* a run committed a document that holds a page mention whose page_id is not a
\* string
C25_Witness ==
  /\ Finished /\ Succeeded /\ txn_state = "committed"
  /\ \E p \in EnteredDocs : JsonNotString \in Range(published[p].deltas)
  /\ \E k \in Inserted("Document") : JsonNotString \in Range(txn[k].deltas)

\* both runs have committed
BothCommitted == Finished /\ txn_state = "committed" /\ other.pc = "done"

\* C26 as claimed, for two runs during which no update frame reached a group,
\* so that every read of the latest state was served by the storage: once both
\* runs have committed, the persisted folder holds the root view and the added
\* views of both, and the persisted workspace-database meta holds the databases
\* of both.
C26_NoLostUpdate ==
  (BothCommitted /\ broadcasts = <<>>) =>
    /\ \A v \in Range(FolderViewsToInsert) \cup {OtherRootView} :
         v \in Range(Latest(WorkspaceId).folder_views)
    /\ \A k \in DOMAIN workspace_databases \cup DOMAIN OtherWorkspaceDatabases :
         k \in DOMAIN Latest(WsDbOid).ws_databases

\* the step in which deep_copy_txn is called for the page mention p and reads
\* the publish store
MentionFetch(p) ==
  /\ DocPageMention /\ AtMention(p)
  /\ p \in PageIds
  /\ next_id' # next_id

\* C27: during a run an entry of duplicated_refs never changes once it is made,
\* whether it holds a new id or the tombstone, and the publish store is read
\* through a page mention only for an id that was never read before.
C27_WriteOnce ==
  [][/\ \A k \in DOMAIN duplicated_refs :
          /\ k \in DOMAIN duplicated_refs'
          /\ duplicated_refs'[k] = duplicated_refs[k]
     /\ \A p \in PageIds :
          MentionFetch(p) => p \notin DOMAIN published /\ p \notin DOMAIN duplicated_refs]_vars

\* a committed run whose documents mention an unpublished page twice and the
\* page the run started on, which is mapped before any mention is looked at
C27_Witness ==
  /\ Finished /\ Succeeded
  /\ \E p \in EnteredDocs : \E i, j \in DOMAIN published[p].deltas :
       /\ i # j
       /\ published[p].deltas[i] = published[p].deltas[j]
       /\ published[p].deltas[i] \in DOMAIN duplicated_refs
       /\ duplicated_refs[published[p].deltas[i]] = NoneRef
  /\ \E p \in EnteredDocs : publish_view_id \in DeltaMentions(p)

\* C28 as claimed: in the sequence root_view, views_to_add a view whose parent
\* is a view of the sequence comes later than that parent.
C28_ParentBeforeChild ==
  AtFolderUpdate =>
    LET views == <<root_view>> \o views_to_add IN
    \A k, m \in DOMAIN views :
      views[k].parent_view_id = views[m].id => m < k

\* the folder view made for a database block of a document, db_view_in_doc
InDocumentView(v) ==
  /\ v.id \notin DatabaseViewIds
  /\ \E d \in DOMAIN workspace_databases :
       v.id = workspace_databases[d][Len(workspace_databases[d])]

\* C28 amended: the folder update inserts root_view and then views_to_add in
\* the order of the pushes, after the views the folder held. The root view is
\* first; any other view whose parent is in views_to_add comes before that
\* parent, but for the in-document view of an embedded database, which directly
\* follows its parent, the folder view of the database.
C28_InsertionOrder ==
  /\ pc \in {"folder_insert", "folder_broadcast", "commit"} =>
       folder = StoredBefore[1].folder_views \o <<root_view>> \o views_to_add
  /\ AtFolderUpdate =>
       \A k, m \in DOMAIN views_to_add :
         views_to_add[k].parent_view_id = views_to_add[m].id =>
           IF InDocumentView(views_to_add[k]) THEN k = m + 1 ELSE k < m

\* the folder is updated after a chain A mentions B mentions C was copied, and
\* after a database with a sibling view embedded in a document was copied
C28_Witness ==
  /\ AtFolderUpdate
  /\ \/ \E k, m \in DOMAIN views_to_add :
          /\ k < m
          /\ views_to_add[k].parent_view_id = views_to_add[m].id
          /\ views_to_add[k].layout = "Document"
          /\ views_to_add[m].parent_view_id = root_view.id
     \/ \E k, m, n \in DOMAIN views_to_add :
          /\ k < m /\ n = m + 1
          /\ views_to_add[k].parent_view_id = views_to_add[m].id
          /\ views_to_add[n].parent_view_id = views_to_add[m].id
          /\ InDocumentView(views_to_add[n])

\* C29 as claimed: the children list of every view the run adds to the folder
\* holds each id at most once and never the id of the view itself.
C29_ChildrenDistinct ==
  AtFolderUpdate =>
    \A v \in Range(<<root_view>> \o views_to_add) :
      /\ \A i, j \in DOMAIN v.children : v.children[i] = v.children[j] => i = j
      /\ \A i \in DOMAIN v.children : v.children[i] # v.id

\* C30: a run ends once, and with one outcome. Until it ends it has no result
\* and its transaction is neither committed nor rolled back; when it has ended
\* it returned Ok exactly if the transaction is committed, and otherwise the
\* transaction is rolled back and the store is as before. The commit is taken
\* once, from the open transaction whose last insert is the folder collab, and
\* it ends the run; nothing happens after the end.
C30_OneOutcome ==
  [][/\ ~Finished
     /\ result.kind = "Running"
     /\ txn_state \in {"none", "open"}
     /\ Finished' =>
          /\ result'.kind # "Running"
          /\ txn_state' \in {"committed", "rolled_back"}
          /\ Succeeded' <=> txn_state' = "committed"
          /\ ~Succeeded' => stored' = StoredBefore
     /\ ~Finished' => result'.kind = "Running" /\ txn_state' = "open"
     /\ txn_state' = "committed" =>
          /\ Commit
          /\ txn_state = "open"
          /\ txn # <<>>
          /\ txn[Len(txn)].collab_type = "Folder"
          /\ txn[Len(txn)].object_id = WorkspaceId
          /\ stored' = StoredBefore \o txn]_vars

\* a run has returned Ok with its transaction committed
C30_Witness ==
  /\ Finished /\ Succeeded
  /\ txn_state = "committed"
  /\ txn[Len(txn)].collab_type = "Folder"
  /\ stored = StoredBefore \o txn

====
